---- MODULE Spec2Model ----
(***************************************************************************)
(* Cayley-Dickson construction of cplx.rs (src/src/lib.rs), and the        *)
(* bitmask basis-blade product of the general-signature algebra.           *)
(*                                                                         *)
(* A type is a sequence of tags, outermost first: << >> is isize,          *)
(* <<"N1">> is Complex<isize, N1>, <<"N1","P1">> is                        *)
(* Complex<Complex<isize, P1>, N1>, and a leading "SC" is SelfConjugate<_>.*)
(* A Complex value is the record [re, im] of its fields .1 and .2 (the     *)
(* PhantomData field .0 carries no data); the tuple that into_rect returns *)
(* is a TLA+ tuple.  isize arithmetic is modelled without overflow.        *)
(***************************************************************************)
EXTENDS Integers, Sequences, FiniteSets, TLC

VARIABLES ty, lhs, rhs, op, out, sig, bi, bj, bout

vars == <<ty, lhs, rhs, op, out, sig, bi, bj, bout>>

\* ---------------------------------------------------------------- bounds
MaxInt == 2
MaxQ == 1
MaxTotal == 3

\* ----------------------------------------------------------------- types
Tags == {"N1", "P1", "Z0"}

ComplexTypes == {<<s>> : s \in Tags}

QuaternionTypes == {<<s, t>> : s \in Tags, t \in Tags}

WrappedTypes == {<<"SC">>} \cup {<<"SC", s>> : s \in Tags}

\* The operand types the model draws: isize, Complex<isize, S>,
\* Complex<Complex<isize, T>, S> and SelfConjugate over the first two.
Types == {<< >>} \cup ComplexTypes \cup QuaternionTypes \cup WrappedTypes

None == "none"

RECURSIVE Vals(_, _, _)
Vals(t, lo, hi) ==
    IF t = << >> THEN lo .. hi
    ELSE IF Head(t) = "SC" THEN [sc : Vals(Tail(t), lo, hi)]
    ELSE [re : Vals(Tail(t), lo, hi), im : Vals(Tail(t), lo, hi)]

\* Arithmetic (Add, Sub, Neg, Mul, Div, Zero, One) exists for isize and for
\* Complex over a type that has it; SelfConjugate implements none of them.
RECURSIVE HasArith(_)
HasArith(t) ==
    IF t = << >> THEN TRUE
    ELSE Head(t) # "SC" /\ HasArith(Tail(t))

IsComplex(t) == t # << >> /\ Head(t) # "SC"

\* S: Sign<A> holds for P1 over any A, for N1 when A: Neg, for Z0 when A: Zero.
SignImpl(s, t) == s = "P1" \/ HasArith(t)

\* ------------------------------------------------------- primitive isize
\* Mutant of idiv: the quotient rounded toward minus infinity.
idiv_floor(a, b) == IF b < 0 THEN (-a) \div (-b) ELSE a \div b

\* isize `/` truncates toward zero; b # 0.
idiv(a, b) ==
    LET abs(x) == IF x < 0 THEN -x ELSE x
        q == abs(a) \div abs(b)
    IN IF (a < 0) # (b < 0) THEN -q ELSE q

\* ------------------------------------------------------ Complex<A, S>
from_rect(re, im) == [re |-> re, im |-> im]

\* Mutant of into_rect: the two fields in the wrong order.
into_rect_swapped(c) == <<c.im, c.re>>

into_rect(c) == <<c.re, c.im>>

to_rect(c) == into_rect(c)

RECURSIVE zero(_)
zero(t) == IF t = << >> THEN 0 ELSE from_rect(zero(Tail(t)), zero(Tail(t)))

\* Mutant of one: the imaginary component is one_A too.
RECURSIVE one_both(_)
one_both(t) == IF t = << >> THEN 1 ELSE from_rect(one_both(Tail(t)), one_both(Tail(t)))

RECURSIVE one(_)
one(t) == IF t = << >> THEN 1 ELSE from_rect(one(Tail(t)), zero(Tail(t)))

RECURSIVE eq(_, _, _)
eq(t, x, y) ==
    IF t = << >> THEN x = y
    ELSE IF Head(t) = "SC" THEN eq(Tail(t), x.sc, y.sc)
    ELSE eq(Tail(t), x.re, y.re) /\ eq(Tail(t), x.im, y.im)

RECURSIVE add(_, _, _)
add(t, x, y) ==
    IF t = << >> THEN x + y
    ELSE [re |-> add(Tail(t), x.re, y.re), im |-> add(Tail(t), x.im, y.im)]

RECURSIVE sub(_, _, _)
sub(t, x, y) ==
    IF t = << >> THEN x - y
    ELSE [re |-> sub(Tail(t), x.re, y.re), im |-> sub(Tail(t), x.im, y.im)]

RECURSIVE neg(_, _)
neg(t, x) ==
    IF t = << >> THEN -x
    ELSE [re |-> neg(Tail(t), x.re), im |-> neg(Tail(t), x.im)]

\* Mutant of sign: the impls for P1 and N1 exchanged.
sign_swapped(s, t, a) ==
    CASE s = "P1" -> neg(t, a)
      [] s = "N1" -> a
      [] s = "Z0" -> zero(t)

\* Mutant of sign: Z0 keeps its argument.
sign_keep(s, t, a) ==
    CASE s = "P1" -> a
      [] s = "N1" -> neg(t, a)
      [] s = "Z0" -> a

\* S::sign(a) for a of type t.
sign(s, t, a) ==
    CASE s = "P1" -> a
      [] s = "N1" -> neg(t, a)
      [] s = "Z0" -> zero(t)

\* Mutant of conjugate: the real component is not conjugated.
RECURSIVE conjugate_shallow(_, _)
conjugate_shallow(t, x) ==
    IF t = << >> THEN x
    ELSE IF Head(t) = "SC" THEN x
    ELSE [re |-> x.re, im |-> neg(Tail(t), x.im)]

\* Mutant of conjugate: the imaginary component goes through S::sign.
RECURSIVE conjugate_signed(_, _)
conjugate_signed(t, x) ==
    IF t = << >> THEN x
    ELSE IF Head(t) = "SC" THEN x
    ELSE [re |-> conjugate_signed(Tail(t), x.re), im |-> sign(Head(t), Tail(t), x.im)]

RECURSIVE conjugate(_, _)
conjugate(t, x) ==
    IF t = << >> THEN x
    ELSE IF Head(t) = "SC" THEN x
    ELSE [re |-> conjugate(Tail(t), x.re), im |-> neg(Tail(t), x.im)]

\* Mutant of mul: c is not conjugated in the imaginary component.
RECURSIVE mul_noconj(_, _, _)
mul_noconj(t, x, y) ==
    IF t = << >> THEN x * y
    ELSE LET A == Tail(t)
             a == x.re
             b == x.im
             c == y.re
             d == y.im
         IN [re |-> add(A, mul_noconj(A, a, c),
                           sign(Head(t), A, mul_noconj(A, conjugate(A, d), b))),
             im |-> add(A, mul_noconj(A, d, a), mul_noconj(A, b, c))]

RECURSIVE mul(_, _, _)
mul(t, x, y) ==
    IF t = << >> THEN x * y
    ELSE LET A == Tail(t)
             a == x.re
             b == x.im
             c == y.re
             d == y.im
         IN [re |-> add(A, mul(A, a, c),
                           sign(Head(t), A, mul(A, conjugate(A, d), b))),
             im |-> add(A, mul(A, d, a), mul(A, b, conjugate(A, c)))]

\* TRUE iff x / y panics (an isize division by zero somewhere below).
RECURSIVE div_panics(_, _, _)
div_panics(t, x, y) ==
    IF t = << >> THEN y = 0
    ELSE LET A == Tail(t)
             p == mul(t, x, conjugate(t, y))
             n == mul(t, y, conjugate(t, y))
         IN div_panics(A, p.re, n.re) \/ div_panics(A, p.im, n.re)

RECURSIVE div(_, _, _)
div(t, x, y) ==
    IF t = << >> THEN idiv(x, y)
    ELSE LET A == Tail(t)
             p == mul(t, x, conjugate(t, y))
             n == mul(t, y, conjugate(t, y))
         IN [re |-> div(A, p.re, n.re), im |-> div(A, p.im, n.re)]

\* From<A> for Complex<A, S>: x is of type t.
from(t, x) == from_rect(x, sign("Z0", t, x))

\* ------------------------------------------------------------ operands
\* Left operands of type t: components from -MaxQ .. MaxQ at quaternion
\* level, from -MaxInt .. MaxInt for the shallower types.
Lhs(t) == IF t \in QuaternionTypes THEN Vals(t, -MaxQ, MaxQ) ELSE Vals(t, -MaxInt, MaxInt)

\* Right operands of type t: at quaternion level the sums of distinct basis
\* elements among 1, i, j, k (sum and product are additive in each operand's
\* components), for the shallower types the same values as on the left.
Rhs(t) == IF t \in QuaternionTypes THEN Vals(t, 0, 1) ELSE Vals(t, -MaxInt, MaxInt)

NoSig == [total |-> 0, negative |-> 0, positive |-> 0]

\* No product computed yet.
Pending == [kind |-> "pending"]

BladeIdle == sig = NoSig /\ bi = 0 /\ bj = 0 /\ bout = Pending

Init ==
    /\ ty \in Types
    /\ lhs \in Lhs(ty)
    /\ rhs = None
    /\ op = None
    /\ out = None
    /\ BladeIdle

\* A unary operation on lhs (or on the previous result).
Result(o, v) ==
    /\ op' = o
    /\ out' = v
    /\ UNCHANGED <<ty, lhs, rhs, sig, bi, bj, bout>>

\* A binary operation on lhs and the right operand r.
Result2(o, r, v) ==
    /\ op' = o
    /\ rhs' = r
    /\ out' = v
    /\ UNCHANGED <<ty, lhs, sig, bi, bj, bout>>

\* from_rect::<S, A>(lhs, r) for some tag S with S: Sign<A>.
FromRect ==
    /\ op = None
    /\ \E s \in Tags : SignImpl(s, ty)
    /\ \E r \in Rhs(ty) : Result2("from_rect", r, from_rect(lhs, r))

IntoRect ==
    /\ op = "from_rect"
    /\ Result("into_rect", into_rect(out))

ToRect ==
    /\ op = "from_rect"
    /\ Result("to_rect", to_rect(out))

\* Complex::<A, S>::from(lhs); needs Z0: Sign<A>.
From ==
    /\ op = None
    /\ SignImpl("Z0", ty)
    /\ Result("from", from(ty, lhs))

Eq ==
    /\ op = None
    /\ ty # << >>
    /\ \E r \in Rhs(ty) : Result2("eq", r, eq(ty, lhs, r))

\* conjugate, and conjugate applied to its own result.
Conjugate ==
    \/ /\ op = None
       /\ Result("conjugate", conjugate(ty, lhs))
    \/ /\ op = "conjugate"
       /\ Result("conjugate2", conjugate(ty, out))

Arith == op = None /\ IsComplex(ty) /\ HasArith(ty)

Add == Arith /\ \E r \in Rhs(ty) : Result2("add", r, add(ty, lhs, r))

Sub == Arith /\ \E r \in Rhs(ty) : Result2("sub", r, sub(ty, lhs, r))

Neg == Arith /\ Result("neg", neg(ty, lhs))

Mul == Arith /\ \E r \in Rhs(ty) : Result2("mul", r, mul(ty, lhs, r))

\* x / y panics when an isize division by zero is reached.
Div ==
    /\ Arith
    /\ \E r \in Rhs(ty) :
          IF div_panics(ty, lhs, r)
          THEN Result2("panic", r, None)
          ELSE Result2("div", r, div(ty, lhs, r))

Next ==
    \/ FromRect
    \/ IntoRect
    \/ ToRect
    \/ From
    \/ Eq
    \/ Conjugate
    \/ Add
    \/ Sub
    \/ Neg
    \/ Mul
    \/ Div

Spec == Init /\ [][Next]_vars

\* ------------------------------------------------- Cayley-Dickson claims
\* C1: over the integers the product of (a,b) and (c,d) is
\* (a*c - d*b, d*a + b*c) under N1, (a*c + d*b, d*a + b*c) under P1 and
\* (a*c, d*a + b*c) under Z0.
MulRule ==
    (op = "mul" /\ ty \in ComplexTypes) =>
        LET a == lhs.re
            b == lhs.im
            c == rhs.re
            d == rhs.im
        IN /\ out.im = d * a + b * c
           /\ Head(ty) = "N1" => out.re = a * c - d * b
           /\ Head(ty) = "P1" => out.re = a * c + d * b
           /\ Head(ty) = "Z0" => out.re = a * c

MulRuleReached ==
    /\ op = "mul"
    /\ ty = <<"N1">>
    /\ lhs = [re |-> 1, im |-> 2]
    /\ rhs = [re |-> 2, im |-> -1]
    /\ out = [re |-> 4, im |-> 3]

\* C2: the imaginary unit i = from_rect(0, 1) squares to (-1, 0) under N1,
\* to (1, 0) under P1 and to (0, 0) under Z0.
ImaginaryUnit == [re |-> 0, im |-> 1]

UnitSquare ==
    (op = "mul" /\ ty \in ComplexTypes /\ lhs = ImaginaryUnit /\ rhs = ImaginaryUnit) =>
        /\ Head(ty) = "N1" => out = [re |-> -1, im |-> 0]
        /\ Head(ty) = "P1" => out = [re |-> 1, im |-> 0]
        /\ Head(ty) = "Z0" => out = [re |-> 0, im |-> 0]

UnitSquareReached ==
    /\ op = "mul"
    /\ ty = <<"Z0">>
    /\ lhs = ImaginaryUnit
    /\ rhs = ImaginaryUnit
    /\ out = [re |-> 0, im |-> 0]

\* C3: in Complex<Complex<isize>> the units i, j, k satisfy the nine Hamilton
\* relations i*j = k, j*k = i, k*i = j, k*j = -i, j*i = -k, i*k = -j and
\* i*i = j*j = k*k = -one.
Quat(a, b, c, d) == [re |-> [re |-> a, im |-> b], im |-> [re |-> c, im |-> d]]

Hamilton == <<"N1", "N1">>

QOne == Quat(1, 0, 0, 0)

QI == Quat(0, 1, 0, 0)

QJ == Quat(0, 0, 1, 0)

QK == Quat(0, 0, 0, 1)

Times(x, y) == op = "mul" /\ ty = Hamilton /\ lhs = x /\ rhs = y

HamiltonRelations ==
    /\ Times(QI, QJ) => out = QK
    /\ Times(QJ, QK) => out = QI
    /\ Times(QK, QI) => out = QJ
    /\ Times(QK, QJ) => out = neg(Hamilton, QI)
    /\ Times(QJ, QI) => out = neg(Hamilton, QK)
    /\ Times(QI, QK) => out = neg(Hamilton, QJ)
    /\ Times(QI, QI) => out = neg(Hamilton, QOne)
    /\ Times(QJ, QJ) => out = neg(Hamilton, QOne)
    /\ Times(QK, QK) => out = neg(Hamilton, QOne)

HamiltonReached == Times(QK, QJ) /\ out = Quat(0, -1, 0, 0)

\* C4: at quaternion level, for every tag at each of the two levels,
\* conjugate(a*b) == conjugate(b)*conjugate(a).
AntiAutomorphism ==
    (op = "mul" /\ ty \in QuaternionTypes) =>
        eq(ty, conjugate(ty, out), mul(ty, conjugate(ty, rhs), conjugate(ty, lhs)))

\* a = 1 + i - j, b = j + k in the split-over-dual type: a*b is not b*a.
AntiAutomorphismReached ==
    /\ op = "mul"
    /\ ty = <<"P1", "Z0">>
    /\ lhs = Quat(1, 1, -1, 0)
    /\ rhs = Quat(0, 0, 1, 1)
    /\ out # mul(ty, rhs, lhs)

\* C5: conjugate(conjugate(x)) == x at every depth and for every tag, where
\* conjugate(a,b) = (conjugate(a), -b) whatever the tag, and the conjugate of
\* SelfConjugate(a) is SelfConjugate(a).
Involution ==
    /\ op = "conjugate2" => eq(ty, out, lhs)
    /\ (op = "conjugate" /\ ty \in ComplexTypes) =>
           out = [re |-> lhs.re, im |-> -lhs.im]
    /\ (op = "conjugate" /\ ty \in QuaternionTypes) =>
           out = Quat(lhs.re.re, -lhs.re.im, -lhs.im.re, -lhs.im.im)
    /\ (op = "conjugate" /\ ty \in WrappedTypes) => out = lhs

InvolutionReached ==
    /\ op = "conjugate2"
    /\ ty = <<"Z0", "P1">>
    /\ lhs = Quat(1, -1, 1, -1)
    /\ out = lhs

\* C6: over the integers, whenever b*conjugate(b) has a non-zero real
\* component n, b*conjugate(b) is (n, 0) and a/b is (p div n, q div n) with
\* (p, q) = a*conjugate(b), div being isize division (the quotient rounded
\* toward zero).
Norm(t, b) ==
    CASE Head(t) = "N1" -> b.re * b.re + b.im * b.im
      [] Head(t) = "P1" -> b.re * b.re - b.im * b.im
      [] Head(t) = "Z0" -> b.re * b.re

\* q is x / y rounded toward zero: the remainder is smaller than y in
\* magnitude and is zero or has the sign of x.
Truncates(x, y, q) ==
    LET r == x - q * y
        abs(v) == IF v < 0 THEN -v ELSE v
    IN abs(r) < abs(y) /\ (r = 0 \/ (r < 0) = (x < 0))

DivRule ==
    (op \in {"div", "panic"} /\ ty \in ComplexTypes) =>
        LET n == Norm(ty, rhs)
            pq == mul(ty, lhs, conjugate(ty, rhs))
        IN /\ mul(ty, rhs, conjugate(ty, rhs)) = [re |-> n, im |-> 0]
           /\ pq.im = lhs.im * rhs.re - rhs.im * lhs.re
           /\ op = "panic" => n = 0
           /\ op = "div" =>
                  /\ n # 0
                  /\ Truncates(pq.re, n, out.re)
                  /\ Truncates(pq.im, n, out.im)

\* Under P1, (-2 + i) / (1 + 2i) is (-4 + 5i) / (-3): both quotients are
\* rounded toward zero, to 1 and to -1.
DivRuleReached ==
    /\ op = "div"
    /\ ty = <<"P1">>
    /\ lhs = [re |-> -2, im |-> 1]
    /\ rhs = [re |-> 1, im |-> 2]
    /\ out = [re |-> 1, im |-> -1]

\* C7: into_rect(from_rect(a, b)) and to_rect(from_rect(a, b)) are (a, b) in
\* that order, and two pairs are == iff their real components are equal and
\* their imaginary components are equal.
RoundTrip ==
    /\ op \in {"into_rect", "to_rect"} => out = <<lhs, rhs>>
    /\ (op = "eq" /\ IsComplex(ty)) =>
           (out <=> (lhs.re = rhs.re /\ lhs.im = rhs.im))

RoundTripReached ==
    /\ op = "to_rect"
    /\ ty = << >>
    /\ lhs = 1
    /\ rhs = -2
    /\ out = <<1, -2>>

\* C8: one = (one_A, zero_A) is a two-sided identity of the product and
\* zero = (zero_A, zero_A) a two-sided identity of the sum, at complex and at
\* quaternion level and for every tag.
Identities ==
    /\ (op = "mul" /\ lhs = one(ty)) => eq(ty, out, rhs)
    /\ (op = "mul" /\ rhs = one(ty)) => eq(ty, out, lhs)
    /\ (op = "add" /\ lhs = zero(ty)) => eq(ty, out, rhs)
    /\ (op = "add" /\ rhs = zero(ty)) => eq(ty, out, lhs)
    /\ (op \in {"mul", "add"} /\ ty \in ComplexTypes) =>
           one(ty) = [re |-> 1, im |-> 0] /\ zero(ty) = [re |-> 0, im |-> 0]
    /\ (op \in {"mul", "add"} /\ ty \in QuaternionTypes) =>
           one(ty) = Quat(1, 0, 0, 0) /\ zero(ty) = Quat(0, 0, 0, 0)

IdentitiesReached ==
    /\ op = "mul"
    /\ ty = <<"Z0", "N1">>
    /\ lhs = Quat(1, -1, 1, 1)
    /\ rhs = Quat(1, 0, 0, 0)
    /\ out = lhs

\* ------------------------------------------------ basis-blade product
\* The product of two basis blades of a general-signature algebra.  Its
\* source is not part of src/src/lib.rs; the definitions below follow the
\* design description of the algorithm.
\* A signature is [total, negative, positive]; generator g is bit g of a
\* blade index, the negative generators first, then the positive ones, then
\* the null ones.
RECURSIVE Pow2(_)
Pow2(n) == IF n = 0 THEN 1 ELSE 2 * Pow2(n - 1)

RECURSIVE BitAnd(_, _)
BitAnd(a, b) ==
    IF a = 0 \/ b = 0 THEN 0
    ELSE (a % 2) * (b % 2) + 2 * BitAnd(a \div 2, b \div 2)

RECURSIVE BitXor(_, _)
BitXor(a, b) ==
    IF a = 0 /\ b = 0 THEN 0
    ELSE ((a + b) % 2) + 2 * BitXor(a \div 2, b \div 2)

RECURSIVE count_ones(_)
count_ones(n) == IF n = 0 THEN 0 ELSE (n % 2) + count_ones(n \div 2)

Signatures ==
    {s \in [total : 0 .. MaxTotal, negative : 0 .. MaxTotal, positive : 0 .. MaxTotal] :
        s.negative + s.positive <= s.total}

Blades(s) == 0 .. Pow2(s.total) - 1

nullMask(s) == Pow2(s.total) - Pow2(s.negative + s.positive)

negMask(s) == Pow2(s.negative) - 1

signatureParity(s, i, j) == count_ones(BitAnd(BitAnd(i, j), negMask(s))) % 2

reversalParity(j) == IF BitAnd(count_ones(j), 2) # 0 THEN 1 ELSE 0

\* Mutant of interleavingParity: counts the generators of j above the
\* lowest one instead of those of i.
RECURSIVE interleavingParity_own(_, _)
interleavingParity_own(i, j) ==
    IF i = 0 \/ j = 0 THEN 0
    ELSE LET above == count_ones(j \div 2)
             moves == IF j % 2 = 1 THEN above ELSE 0
         IN (moves + interleavingParity_own(i \div 2, j \div 2)) % 2

\* Parity of the transpositions that merge the generators of i with those of
\* j: the lowest remaining generator, when it is one of j, moves past every
\* generator of i above it; it is then cancelled from both operands, until
\* one of them is exhausted.
RECURSIVE interleavingParity(_, _)
interleavingParity(i, j) ==
    IF i = 0 \/ j = 0 THEN 0
    ELSE LET above == count_ones(i \div 2)
             moves == IF j % 2 = 1 THEN above ELSE 0
         IN (moves + interleavingParity(i \div 2, j \div 2)) % 2

Annihilated == [kind |-> "annihilated"]

Product(negative, blade) == [kind |-> "product", negative |-> negative, blade |-> blade]

mul_basis(s, i, j) ==
    IF BitAnd(BitAnd(i, j), nullMask(s)) # 0 THEN Annihilated
    ELSE Product((signatureParity(s, i, j) + reversalParity(j)
                     + interleavingParity(i, j)) % 2 = 1,
                 BitXor(i, j))

CayleyIdle == ty = << >> /\ lhs = 0 /\ rhs = None /\ op = None /\ out = None

InitB ==
    /\ sig \in Signatures
    /\ bi \in Blades(sig)
    /\ bj \in Blades(sig)
    /\ bout = Pending
    /\ CayleyIdle

MulBasis ==
    /\ bout = Pending
    /\ bout' = mul_basis(sig, bi, bj)
    /\ UNCHANGED <<ty, lhs, rhs, op, out, sig, bi, bj>>

NextB == MulBasis

SpecB == InitB /\ [][NextB]_vars

\* C9: the scalar blade 0 times any blade j is never annihilated and is
\* (positive, j).
ScalarTimesBlade ==
    (bout # Pending /\ bi = 0) => bout = Product(FALSE, bj)

\* C10: in the signature (3, 3, 0) each basis vector squares to the scalar
\* blade with negative sign, and two distinct basis vectors multiplied in
\* either order give the same blade with opposite signs.
Vectors == {1, 2, 4}

Euclid3 == [total |-> 3, negative |-> 3, positive |-> 0]

Anticommute ==
    (bout # Pending /\ sig = Euclid3 /\ bi \in Vectors /\ bj \in Vectors) =>
        IF bi = bj
        THEN bout = Product(TRUE, 0)
        ELSE LET back == mul_basis(sig, bj, bi)
             IN /\ bout # Annihilated
                /\ back # Annihilated
                /\ bout.blade = bi + bj
                /\ back.blade = bi + bj
                /\ bout.negative # back.negative

AnticommuteReached ==
    /\ sig = Euclid3
    /\ bi = 4
    /\ bj = 2
    /\ bout = Product(TRUE, 6)

====
